---- MODULE Spec2Model ----
(***************************************************************************)
(* The theater simulation of SimpyTheaterRealPython.py: the processes      *)
(* run_theater and go_to_movies and the three Theater stations, driven by  *)
(* the simpy environment they import (event heap ordered by time,          *)
(* priority and event id; Resource with a users list and a put queue).     *)
(* Virtual time is counted in ticks of 0.05 time units, so that the        *)
(* 0.05 ticket check and the 0.2 arrival interval are whole numbers.       *)
(***************************************************************************)
EXTENDS Integers, Sequences, FiniteSets, TLC

VARIABLES
    scenario,     \* which driver runs: the theater script or a test scenario
    num,          \* num_cashiers, num_servers, num_ushers given to run_theater
    status,       \* "running", "stopped" (until reached), "crashed"
    now,          \* env.now
    eid,          \* the environment's event id counter
    queue,        \* the environment's event heap, as a set of entries
    capacity,     \* capacity of each simpy.Resource of the Theater
    users,        \* users list of each Resource (the moviegoers holding a unit)
    put_queue,    \* pending requests of each Resource, oldest first
    pc,           \* where each go_to_movies process is
    at,           \* the station a go_to_movies process is at
    arrival_time, \* arrival_time of each go_to_movies process
    moviegoer,    \* the loop variable of run_theater
    wait_times,   \* the global list wait_times
    rlog,         \* history: the requests issued, in order
    glog,         \* history: the grants (users.append), in order
    xlog,         \* history: the releases, in order
    seen,         \* history: the last event processed, per priority
    last,         \* history: the last two events processed
    fault,        \* history: the last negative delay refused, if any
    draws         \* history: the random draws (service delays, food choices)

vars == <<scenario, num, status, now, eid, queue, capacity, users, put_queue,
          pc, at, arrival_time, moviegoer, wait_times, rlog, glog, xlog, seen,
          last, fault, draws>>

(* ------------------------------ constants ------------------------------ *)

TicksPerUnit == 20
Interval == 4
CheckTicketTime == 1
InitialMoviegoers == 5
URGENT == 0
NORMAL == 1

\* random.uniform(1, 3) and random.uniform(1, 5), sampled, in ticks
PurchaseTimes == {20, 24}
FoodTimes == {20, 21}

\* the capacities the theater is run with
CashierChoices == {1, 2}
ServerChoices == {1, 2}
UsherChoices == {1, 2}

\* the time limit the run is given, in ticks
Until == 47

\* the roomy theater: cashiers for the initial cohort and one arrival more, a
\* short time limit, and purchases that end one ticket check apart
RoomyCashiers == 6
RoomyUntil == 27
RoomyPurchaseTimes == {20, 21}

\* the number of moviegoers of the run without arrivals and without time limit
ClosedCohort == 3

Pools == {"cashier", "usher", "server"}

NoEvent == [time |-> -1, prio |-> -1, eid |-> -1, kind |-> "none"]

(* ------------------------- the scenario's driver ------------------------ *)

MaxOf(S) == CHOOSE x \in S : \A y \in S : y <= x

\* the time limit of a run
LimitOf(sc) == IF sc = "roomy" THEN RoomyUntil ELSE Until

Cohort ==
    CASE scenario \in {"scenario1", "misuse"} -> 2
      [] scenario = "closed" -> ClosedCohort
      [] OTHER -> InitialMoviegoers

Arrivals == scenario \notin {"scenario1", "misuse", "closed"}

PurchaseDraws(m) ==
    CASE scenario = "scenario1" /\ m = 0 -> {5 * TicksPerUnit}
      [] scenario = "baddelay" -> PurchaseTimes \cup {-1}
      [] scenario = "roomy" /\ m <= 1 -> RoomyPurchaseTimes
      [] scenario = "roomy" /\ m > 1 -> {MaxOf(RoomyPurchaseTimes)}
      [] OTHER -> PurchaseTimes

(* ------------------------------ the engine ------------------------------ *)

Eng == [queue |-> queue, eid |-> eid, users |-> users, put_queue |-> put_queue,
        rlog |-> rlog, glog |-> glog, xlog |-> xlog]

Before(a, b) ==
    \/ a.time < b.time
    \/ a.time = b.time /\ a.prio < b.prio
    \/ a.time = b.time /\ a.prio = b.prio /\ a.eid < b.eid

Earliest(q) == {e \in q : \A f \in q : ~Before(f, e)}

NextEidStuck(S) == S.eid

NextEid(S) == S.eid + 1

ScheduleBackwards(S, t, prio, delay, kind, m, p, ok) ==
    [S EXCEPT !.queue = @ \cup {[time |-> t - delay, prio |-> prio, eid |-> S.eid,
                                 kind |-> kind, m |-> m, pool |-> p, ok |-> ok]},
              !.eid = NextEid(S)]

Schedule(S, t, prio, delay, kind, m, p, ok) ==
    [S EXCEPT !.queue = @ \cup {[time |-> t + delay, prio |-> prio, eid |-> S.eid,
                                 kind |-> kind, m |-> m, pool |-> p, ok |-> ok]},
              !.eid = NextEid(S)]

MayPut(S, p) == Len(S.users[p]) < capacity[p]

DoPutNewest(S, t, p) ==
    LET n == Len(S.put_queue[p])
        h == S.put_queue[p][n] IN
    IF MayPut(S, p)
    THEN Schedule([S EXCEPT !.users[p] = Append(@, h),
                            !.put_queue[p] = SubSeq(@, 1, n - 1),
                            !.glog = Append(@, [pool |-> p, m |-> h, t |-> t])],
                  t, NORMAL, 0, "request", h, p, TRUE)
    ELSE S

DoPut(S, t, p) ==
    LET h == Head(S.put_queue[p]) IN
    IF MayPut(S, p)
    THEN Schedule([S EXCEPT !.users[p] = Append(@, h),
                            !.put_queue[p] = Tail(@),
                            !.glog = Append(@, [pool |-> p, m |-> h, t |-> t])],
                  t, NORMAL, 0, "request", h, p, TRUE)
    ELSE S

TriggerPutNothing(S, t, p) == S

TriggerPut(S, t, p) == IF S.put_queue[p] = <<>> THEN S ELSE DoPut(S, t, p)

In(s, m) == \E i \in 1..Len(s) : s[i] = m

RequestOnlyQueues(S, t, m, p) ==
    [S EXCEPT !.put_queue[p] = Append(@, m),
              !.rlog = Append(@, [pool |-> p, m |-> m, t |-> t,
                                  free |-> Len(S.users[p]) < capacity[p],
                                  ahead |-> Len(S.put_queue[p]),
                                  granted |-> FALSE])]

Request(S, t, m, p) ==
    LET S1 == TriggerPut([S EXCEPT !.put_queue[p] = Append(@, m)], t, p)
    IN [S1 EXCEPT !.rlog = Append(@, [pool |-> p, m |-> m, t |-> t,
                                      free |-> Len(S.users[p]) < capacity[p],
                                      ahead |-> Len(S.put_queue[p]),
                                      granted |-> In(S1.users[p], m)])]

RemoveBlind(s, m) == IF s = <<>> THEN s ELSE Tail(s)

Remove(s, m) == SelectSeq(s, LAMBDA x : x # m)

ReleaseNoEvent(S, t, m, p) ==
    [S EXCEPT !.users[p] = Remove(@, m),
              !.xlog = Append(@, [pool |-> p, m |-> m, t |-> t,
                                  held |-> In(S.users[p], m)])]

Release(S, t, m, p) ==
    Schedule([S EXCEPT !.users[p] = Remove(@, m),
                       !.xlog = Append(@, [pool |-> p, m |-> m, t |-> t,
                                           held |-> In(S.users[p], m)])],
             t, NORMAL, 0, "release", m, p, TRUE)

EnvProcessDelayed(S, t, kind, m, p) == Schedule(S, t, URGENT, 1, kind, m, p, TRUE)

EnvProcess(S, t, kind, m, p) == Schedule(S, t, URGENT, 0, kind, m, p, TRUE)

TimeoutUnchecked(S, t, delay, kind, m, p) ==
    Schedule(S, t, NORMAL, delay, kind, m, p, TRUE)

Timeout(S, t, delay, kind, m, p) ==
    IF delay < 0 THEN S ELSE Schedule(S, t, NORMAL, delay, kind, m, p, TRUE)

(* --------------------------- the scheduler loop ------------------------- *)

\* env.step(): the entry popped is the earliest one of a running environment
Pop(e, kind) == status = "running" /\ e.kind = kind /\ \A f \in queue : ~Before(f, e)

PoppedNothing(e) == Eng

Popped(e) == [Eng EXCEPT !.queue = queue \ {e}]

Stamp(e) == [time |-> e.time, prio |-> e.prio, eid |-> e.eid, kind |-> e.kind]

\* the step's effect on the environment, the resources and the histories
Commit(e, S) ==
    /\ now' = e.time
    /\ queue' = S.queue
    /\ eid' = S.eid
    /\ users' = S.users
    /\ put_queue' = S.put_queue
    /\ rlog' = S.rlog
    /\ glog' = S.glog
    /\ xlog' = S.xlog
    /\ seen' = [seen EXCEPT ![e.prio] = Stamp(e)]
    /\ last' = <<last[2], Stamp(e)>>
    /\ UNCHANGED <<scenario, num>>

\* one random draw: a service delay (what is the pool) or a food choice
Draw(m, what, value, t) == [m |-> m, what |-> what, value |-> value, t |-> t]

Grow(f, m, v) == [i \in 0..m |-> IF i \in DOMAIN f THEN f[i] ELSE v]

(* ------------------------------- Theater -------------------------------- *)

TheaterSwapped(num_cashiers, num_servers, num_ushers) ==
    [cashier |-> num_cashiers, server |-> num_ushers, usher |-> num_servers]

TheaterCashierServers(num_cashiers, num_servers, num_ushers) ==
    [cashier |-> num_servers, server |-> num_servers, usher |-> num_ushers]

\* Theater.__init__(env, num_cashiers, num_servers, num_ushers)
Theater(num_cashiers, num_servers, num_ushers) ==
    [cashier |-> num_cashiers, server |-> num_servers, usher |-> num_ushers]

\* the delay each station's process asks env.timeout for
purchase_ticket(m) == PurchaseDraws(m)

check_ticket(m) == {CheckTicketTime}

sell_food(m) == FoodTimes

Station(p, m) ==
    CASE p = "cashier" -> purchase_ticket(m)
      [] p = "usher" -> check_ticket(m)
      [] OTHER -> sell_food(m)

(* ------------------------------ run_theater ----------------------------- *)

RECURSIVE SpawnCohortReversed(_, _, _, _)
SpawnCohortReversed(S, t, m, n) ==
    IF m >= n THEN S
    ELSE SpawnCohortReversed(EnvProcess(S, t, "init_mg", n - 1, "none"), t, m, n - 1)

RECURSIVE SpawnCohort(_, _, _, _)
SpawnCohort(S, t, m, n) ==
    IF m >= n THEN S
    ELSE SpawnCohort(EnvProcess(S, t, "init_mg", m, "none"), t, m + 1, n)

\* first run of run_theater: the Theater, the initial moviegoers, the first timeout
RunTheaterStart ==
    \E e \in queue :
        /\ Pop(e, "init_gen")
        /\ LET S1 == SpawnCohort(Popped(e), e.time, 0, Cohort)
               S2 == IF Arrivals
                     THEN Timeout(S1, e.time, Interval, "timeout_gen", -1, "none")
                     ELSE Schedule(S1, e.time, NORMAL, 0, "proc_end", -1, "none", TRUE)
           IN Commit(e, S2)
        /\ capacity' = Theater(num.cashiers, num.servers, num.ushers)
        /\ moviegoer' = Cohort - 1
        /\ pc' = Grow(pc, Cohort - 1, "pending")
        /\ at' = Grow(at, Cohort - 1, "none")
        /\ arrival_time' = Grow(arrival_time, Cohort - 1, -1)
        /\ UNCHANGED <<status, wait_times, fault, draws>>

RunTheaterLoopOnce ==
    \E e \in queue :
        /\ Pop(e, "timeout_gen")
        /\ LET S1 == EnvProcess(Popped(e), e.time, "init_mg", moviegoer + 1, "none")
               S2 == Schedule(S1, e.time, NORMAL, 0, "proc_end", -1, "none", TRUE)
           IN Commit(e, S2)
        /\ moviegoer' = moviegoer + 1
        /\ pc' = Grow(pc, moviegoer + 1, "pending")
        /\ at' = Grow(at, moviegoer + 1, "none")
        /\ arrival_time' = Grow(arrival_time, moviegoer + 1, -1)
        /\ UNCHANGED <<status, capacity, wait_times, fault, draws>>

\* one turn of the while True loop: the timeout is over, one more moviegoer
RunTheaterLoop ==
    \E e \in queue :
        /\ Pop(e, "timeout_gen")
        /\ LET S1 == EnvProcess(Popped(e), e.time, "init_mg", moviegoer + 1, "none")
               S2 == Timeout(S1, e.time, Interval, "timeout_gen", -1, "none")
           IN Commit(e, S2)
        /\ moviegoer' = moviegoer + 1
        /\ pc' = Grow(pc, moviegoer + 1, "pending")
        /\ at' = Grow(at, moviegoer + 1, "none")
        /\ arrival_time' = Grow(arrival_time, moviegoer + 1, -1)
        /\ UNCHANGED <<status, capacity, wait_times, fault, draws>>

(* ------------------------------ go_to_movies ---------------------------- *)

ExitWithLeak(S, t, m, p) == S

\* leaving a "with theater.<pool>.request() as request" block releases the unit
ExitWith(S, t, m, p) == Release(S, t, m, p)

SampleReversed(t, m) == arrival_time[m] - t

\* wait_times.append(env.now - arrival_time)
Sample(t, m) == t - arrival_time[m]

FinishSilently(w, t, m) == w

FinishTwice(w, t, m) == Append(Append(w, Sample(t, m)), Sample(t, m))

Finish(w, t, m) == Append(w, Sample(t, m))

\* first run of go_to_movies: note the arrival, ask for a cashier
Arrive ==
    \E e \in queue :
        /\ Pop(e, "init_mg")
        /\ pc[e.m] = "pending"
        /\ Commit(e, Request(Popped(e), e.time, e.m, "cashier"))
        /\ arrival_time' = [arrival_time EXCEPT ![e.m] = e.time]
        /\ pc' = [pc EXCEPT ![e.m] = "request"]
        /\ at' = [at EXCEPT ![e.m] = "cashier"]
        /\ UNCHANGED <<status, capacity, moviegoer, wait_times, fault, draws>>

\* "yield request" is over: start the station's process and wait for it
Granted ==
    \E e \in queue :
        /\ Pop(e, "request")
        /\ pc[e.m] = "request" /\ at[e.m] = e.pool
        /\ Commit(e, EnvProcess(Popped(e), e.time, "init_sub", e.m, e.pool))
        /\ pc' = [pc EXCEPT ![e.m] = "station"]
        /\ UNCHANGED <<status, capacity, at, arrival_time, moviegoer, wait_times, fault, draws>>

\* first run of purchase_ticket, check_ticket or sell_food: env.timeout(delay)
StationStart ==
    \E e \in queue :
        /\ Pop(e, "init_sub")
        /\ \E d \in Station(e.pool, e.m) :
              /\ d >= 0
              /\ Commit(e, Timeout(Popped(e), e.time, d, "timeout_sub", e.m, e.pool))
              /\ draws' = Append(draws, Draw(e.m, e.pool, d, e.time))
        /\ UNCHANGED <<status, capacity, pc, at, arrival_time, moviegoer, wait_times, fault>>

\* the same with a negative delay: env.timeout raises, the station's process fails
StationRaises ==
    \E e \in queue :
        /\ Pop(e, "init_sub")
        /\ \E d \in Station(e.pool, e.m) :
              /\ d < 0
              /\ LET S1 == Timeout(Popped(e), e.time, d, "timeout_sub", e.m, e.pool)
                 IN /\ Commit(e, Schedule(S1, e.time, NORMAL, 0, "proc_sub", e.m, e.pool, FALSE))
                    /\ fault' = [m |-> e.m, t |-> e.time, delay |-> d,
                                 kept |-> (S1 = Popped(e))]
                    /\ draws' = Append(draws, Draw(e.m, e.pool, d, e.time))
        /\ UNCHANGED <<status, capacity, pc, at, arrival_time, moviegoer, wait_times>>

\* the station's timeout is over: its process ends
StationEnd ==
    \E e \in queue :
        /\ Pop(e, "timeout_sub")
        /\ Commit(e, Schedule(Popped(e), e.time, NORMAL, 0, "proc_sub", e.m, e.pool, TRUE))
        /\ UNCHANGED <<status, capacity, pc, at, arrival_time, moviegoer, wait_times, fault, draws>>

LeaveCashierNested ==
    \E e \in queue :
        /\ Pop(e, "proc_sub")
        /\ e.ok /\ e.pool = "cashier" /\ pc[e.m] = "station"
        /\ Commit(e, Request(Popped(e), e.time, e.m, "usher"))
        /\ pc' = [pc EXCEPT ![e.m] = "request"]
        /\ at' = [at EXCEPT ![e.m] = "usher"]
        /\ UNCHANGED <<status, capacity, arrival_time, moviegoer, wait_times, fault, draws>>

\* the ticket is bought: leave the cashier block, ask for an usher
LeaveCashier ==
    \E e \in queue :
        /\ Pop(e, "proc_sub")
        /\ e.ok /\ e.pool = "cashier" /\ pc[e.m] = "station"
        /\ Commit(e, Request(ExitWith(Popped(e), e.time, e.m, "cashier"),
                             e.time, e.m, "usher"))
        /\ pc' = [pc EXCEPT ![e.m] = "request"]
        /\ at' = [at EXCEPT ![e.m] = "usher"]
        /\ UNCHANGED <<status, capacity, arrival_time, moviegoer, wait_times, fault, draws>>

\* a caller that releases its cashier request once more after the with block
\* has released it, then goes on to the usher
LeaveCashierTwice ==
    \E e \in queue :
        /\ Pop(e, "proc_sub")
        /\ e.ok /\ e.pool = "cashier" /\ pc[e.m] = "station"
        /\ Commit(e, Request(Release(ExitWith(Popped(e), e.time, e.m, "cashier"),
                                     e.time, e.m, "cashier"),
                             e.time, e.m, "usher"))
        /\ pc' = [pc EXCEPT ![e.m] = "request"]
        /\ at' = [at EXCEPT ![e.m] = "usher"]
        /\ UNCHANGED <<status, capacity, arrival_time, moviegoer, wait_times, fault, draws>>

\* the ticket is checked and 'food' is drawn: leave the usher block, ask for a server
LeaveUsherFood ==
    \E e \in queue :
        /\ Pop(e, "proc_sub")
        /\ e.ok /\ e.pool = "usher" /\ pc[e.m] = "station"
        /\ Commit(e, Request(ExitWith(Popped(e), e.time, e.m, "usher"),
                             e.time, e.m, "server"))
        /\ pc' = [pc EXCEPT ![e.m] = "request"]
        /\ at' = [at EXCEPT ![e.m] = "server"]
        /\ draws' = Append(draws, Draw(e.m, "food", 1, e.time))
        /\ UNCHANGED <<status, capacity, arrival_time, moviegoer, wait_times, fault>>

\* the ticket is checked and 'no_food' is drawn: leave the usher block, record, end
LeaveUsherNoFood ==
    \E e \in queue :
        /\ Pop(e, "proc_sub")
        /\ e.ok /\ e.pool = "usher" /\ pc[e.m] = "station"
        /\ Commit(e, Schedule(ExitWith(Popped(e), e.time, e.m, "usher"),
                              e.time, NORMAL, 0, "proc_end", e.m, "none", TRUE))
        /\ wait_times' = Finish(wait_times, e.time, e.m)
        /\ pc' = [pc EXCEPT ![e.m] = "terminated"]
        /\ at' = [at EXCEPT ![e.m] = "none"]
        /\ draws' = Append(draws, Draw(e.m, "food", 0, e.time))
        /\ UNCHANGED <<status, capacity, arrival_time, moviegoer, fault>>

\* the food is sold: leave the server block, record, end
LeaveServer ==
    \E e \in queue :
        /\ Pop(e, "proc_sub")
        /\ e.ok /\ e.pool = "server" /\ pc[e.m] = "station"
        /\ Commit(e, Schedule(ExitWith(Popped(e), e.time, e.m, "server"),
                              e.time, NORMAL, 0, "proc_end", e.m, "none", TRUE))
        /\ wait_times' = Finish(wait_times, e.time, e.m)
        /\ pc' = [pc EXCEPT ![e.m] = "terminated"]
        /\ at' = [at EXCEPT ![e.m] = "none"]
        /\ UNCHANGED <<status, capacity, arrival_time, moviegoer, fault, draws>>

\* the station's process failed: the exception leaves the with block and go_to_movies
StationFailed ==
    \E e \in queue :
        /\ Pop(e, "proc_sub")
        /\ ~e.ok /\ pc[e.m] = "station"
        /\ Commit(e, Schedule(ExitWith(Popped(e), e.time, e.m, e.pool),
                              e.time, NORMAL, 0, "proc_end", e.m, "none", FALSE))
        /\ pc' = [pc EXCEPT ![e.m] = "failed"]
        /\ at' = [at EXCEPT ![e.m] = "none"]
        /\ UNCHANGED <<status, capacity, arrival_time, moviegoer, wait_times, fault, draws>>

(* ------------------------- the engine's own events ---------------------- *)

\* a release event is processed: its callback grants the oldest pending request
ReleaseProcessed ==
    \E e \in queue :
        /\ Pop(e, "release")
        /\ Commit(e, TriggerPut(Popped(e), e.time, e.pool))
        /\ UNCHANGED <<status, capacity, pc, at, arrival_time, moviegoer, wait_times, fault, draws>>

\* the event of a process that ended: nobody waits for it
ProcessEnded ==
    \E e \in queue :
        /\ Pop(e, "proc_end")
        /\ e.ok
        /\ Commit(e, Popped(e))
        /\ UNCHANGED <<status, capacity, pc, at, arrival_time, moviegoer, wait_times, fault, draws>>

\* the event of a process that failed and that nobody waits for: the run raises
ProcessCrashed ==
    \E e \in queue :
        /\ Pop(e, "proc_end")
        /\ ~e.ok
        /\ Commit(e, Popped(e))
        /\ status' = "crashed"
        /\ UNCHANGED <<capacity, pc, at, arrival_time, moviegoer, wait_times, fault, draws>>

StopSimulationIgnored ==
    \E e \in queue :
        /\ Pop(e, "until")
        /\ Commit(e, Popped(e))
        /\ UNCHANGED <<status, capacity, pc, at, arrival_time, moviegoer, wait_times, fault, draws>>

\* the until event of env.run(until=...) is processed: the run stops
StopSimulation ==
    \E e \in queue :
        /\ Pop(e, "until")
        /\ Commit(e, Popped(e))
        /\ status' = "stopped"
        /\ UNCHANGED <<capacity, pc, at, arrival_time, moviegoer, wait_times, fault, draws>>

(* ---------------------------- specifications ---------------------------- *)

Entry(t, prio, id, kind) ==
    [time |-> t, prio |-> prio, eid |-> id, kind |-> kind, m |-> -1,
     pool |-> "none", ok |-> TRUE]

NoFault == [m |-> -1, t |-> -1, delay |-> 0, kept |-> TRUE]

\* env = simpy.Environment(); env.process(run_theater(env, ...)); env.run(until=...)
Start(sc, timed) ==
    /\ scenario = sc
    /\ status = "running"
    /\ now = 0
    /\ eid = IF timed THEN 2 ELSE 1
    /\ queue = {Entry(0, URGENT, 0, "init_gen")}
                 \cup (IF timed THEN {Entry(LimitOf(sc), URGENT, 1, "until")} ELSE {})
    /\ capacity = [p \in Pools |-> 0]
    /\ users = [p \in Pools |-> <<>>]
    /\ put_queue = [p \in Pools |-> <<>>]
    /\ pc = <<>>
    /\ at = <<>>
    /\ arrival_time = <<>>
    /\ moviegoer = -1
    /\ wait_times = <<>>
    /\ rlog = <<>>
    /\ glog = <<>>
    /\ xlog = <<>>
    /\ seen = [q \in {URGENT, NORMAL} |-> NoEvent]
    /\ last = <<NoEvent, NoEvent>>
    /\ fault = NoFault
    /\ draws = <<>>

Init ==
    /\ num \in [cashiers : CashierChoices, servers : ServerChoices, ushers : UsherChoices]
    /\ Start("theater", TRUE)

Next ==
    \/ RunTheaterStart
    \/ RunTheaterLoop
    \/ Arrive
    \/ Granted
    \/ StationStart
    \/ StationEnd
    \/ LeaveCashier
    \/ LeaveUsherFood
    \/ LeaveUsherNoFood
    \/ LeaveServer
    \/ ReleaseProcessed
    \/ ProcessEnded
    \/ StopSimulation

Spec == Init /\ [][Next]_vars

\* scenario 1: a pool of capacity 1, two processes that ask for it at time 0,
\* the first of which holds it for 5 time units; the run goes on to its end
InitScenario1 ==
    /\ num \in [cashiers : {1}, servers : ServerChoices, ushers : UsherChoices]
    /\ Start("scenario1", FALSE)

NextScenario1 ==
    \/ RunTheaterStart
    \/ Arrive
    \/ Granted
    \/ StationStart
    \/ StationEnd
    \/ LeaveCashier
    \/ LeaveUsherFood
    \/ LeaveUsherNoFood
    \/ LeaveServer
    \/ ReleaseProcessed
    \/ ProcessEnded

SpecScenario1 == InitScenario1 /\ [][NextScenario1]_vars

\* the theater with a purchase_ticket that may ask for a negative delay
InitBadDelay ==
    /\ num \in [cashiers : CashierChoices, servers : ServerChoices, ushers : UsherChoices]
    /\ Start("baddelay", TRUE)

NextBadDelay ==
    \/ RunTheaterStart
    \/ RunTheaterLoop
    \/ Arrive
    \/ Granted
    \/ StationStart
    \/ StationRaises
    \/ StationEnd
    \/ LeaveCashier
    \/ LeaveUsherFood
    \/ LeaveUsherNoFood
    \/ LeaveServer
    \/ StationFailed
    \/ ReleaseProcessed
    \/ ProcessEnded
    \/ ProcessCrashed
    \/ StopSimulation

SpecBadDelay == InitBadDelay /\ [][NextBadDelay]_vars

\* two moviegoers, one of which may release its cashier request twice; the
\* run goes on to its end
InitMisuse ==
    /\ num \in [cashiers : CashierChoices, servers : ServerChoices, ushers : UsherChoices]
    /\ Start("misuse", FALSE)

NextMisuse ==
    \/ RunTheaterStart
    \/ Arrive
    \/ Granted
    \/ StationStart
    \/ StationEnd
    \/ LeaveCashier
    \/ LeaveCashierTwice
    \/ LeaveUsherFood
    \/ LeaveUsherNoFood
    \/ LeaveServer
    \/ ReleaseProcessed
    \/ ProcessEnded

SpecMisuse == InitMisuse /\ [][NextMisuse]_vars

\* a cohort of moviegoers without later arrivals and without time limit:
\* env.run() processes events as long as there is one
InitClosed ==
    /\ num \in [cashiers : {1}, servers : ServerChoices, ushers : UsherChoices]
    /\ Start("closed", FALSE)

NextClosed ==
    \/ RunTheaterStart
    \/ Arrive
    \/ Granted
    \/ StationStart
    \/ StationEnd
    \/ LeaveCashier
    \/ LeaveUsherFood
    \/ LeaveUsherNoFood
    \/ LeaveServer
    \/ ReleaseProcessed
    \/ ProcessEnded

SpecClosed == InitClosed /\ [][NextClosed]_vars /\ WF_vars(NextClosed)

\* the roomy theater, run up to its time limit
InitRoomy ==
    /\ num \in [cashiers : {RoomyCashiers}, servers : ServerChoices, ushers : {1}]
    /\ Start("roomy", TRUE)

NextRoomy ==
    \/ RunTheaterStart
    \/ RunTheaterLoop
    \/ Arrive
    \/ Granted
    \/ StationStart
    \/ StationEnd
    \/ LeaveCashier
    \/ LeaveUsherFood
    \/ LeaveUsherNoFood
    \/ ReleaseProcessed
    \/ ProcessEnded
    \/ StopSimulation

SpecRoomy == InitRoomy /\ [][NextRoomy]_vars

(* ------------------------------ properties ------------------------------ *)

Of(log, p) == SelectSeq(log, LAMBDA r : r.pool = p)

Who(log) == [i \in 1..Len(log) |-> log[i].m]

Count(log, m, p) == Len(SelectSeq(log, LAMBDA r : r.m = m /\ r.pool = p))

Given(p) ==
    CASE p = "cashier" -> num.cashiers
      [] p = "usher" -> num.ushers
      [] OTHER -> num.servers

\* C1: the number of units of a pool that are held is never below 0 and never
\* above the capacity the theater was given for that pool.
HeldCountWithinCapacity ==
    \A p \in Pools : 0 <= Len(users[p]) /\ Len(users[p]) <= Given(p)

\* C1 witness: a pool is full, a request waits for it and a unit was released before
FullPoolAfterRelease ==
    \E p \in Pools :
        /\ Len(users[p]) = Given(p)
        /\ put_queue[p] # <<>>
        /\ Of(xlog, p) # <<>>

\* C2: on every pool the grants follow the order of the requests, and the
\* requests that wait are exactly the ones not granted yet, oldest first: no
\* request is granted while an older one is pending.
GrantsInRequestOrder ==
    \A p \in Pools : Who(Of(rlog, p)) = Who(Of(glog, p)) \o put_queue[p]

\* C2 witness: two requests were blocked on the same pool and both were granted
\* later, after releases
TwoBlockedThenGranted ==
    \E p \in Pools : \E i, j \in 1..Len(rlog) :
        /\ i < j
        /\ rlog[i].pool = p /\ rlog[j].pool = p
        /\ ~rlog[i].free /\ ~rlog[j].free
        /\ rlog[i].t = rlog[j].t
        /\ Count(glog, rlog[i].m, p) = 1 /\ Count(glog, rlog[j].m, p) = 1

\* C3: the clock never goes back from one processed event to the next, and
\* no entry of the event queue is scheduled before the current clock.
ClockNeverGoesBack ==
    /\ [](\A e \in queue : e.time >= now)
    /\ [][now' >= now]_vars

\* C3 witness: the clock has advanced between two processed events
ClockAdvanced == last[1].time >= 0 /\ last[1].time < last[2].time /\ now = last[2].time

\* C4 as stated: of two events processed one after the other at the same
\* virtual time, the one issued first (the smaller event id) is processed first.
SameTimeInIssueOrder ==
    (last[1].eid >= 0 /\ last[1].time = last[2].time) => last[1].eid < last[2].eid

\* C4: events of the same virtual time and the same priority are processed in
\* the order they were issued (the starts of processes are urgent and go
\* before the other events of that time), and the initial moviegoers run first
\* in the order 0, 1, 2, 3, 4 and ask for a cashier in that order.
SameTimeSamePriorityInIssueOrder ==
    /\ \A e \in Earliest(queue) :
          seen[e.prio].time = e.time => seen[e.prio].eid < e.eid
    /\ \A i \in 1..Len(Of(rlog, "cashier")) :
          i <= InitialMoviegoers => Of(rlog, "cashier")[i].m = i - 1

\* C4 witness: the five initial moviegoers have all asked for a cashier at time 0
InitialCohortAsked ==
    /\ Len(Of(rlog, "cashier")) = InitialMoviegoers
    /\ \A i \in 1..InitialMoviegoers : rlog[i].t = 0
    /\ seen[URGENT].kind = "init_mg"

Five == 5 * TicksPerUnit

\* C5: with a cashier pool of capacity 1 and moviegoers 0 and 1 both asking
\* for it at time 0, moviegoer 0 holding it for 5 time units, moviegoer 1 is
\* granted the pool at time exactly 5 and does not hold it at any earlier time.
SecondGrantedAtFive ==
    /\ \A i \in 1..Len(glog) :
          (glog[i].pool = "cashier" /\ glog[i].m = 1) => glog[i].t = Five
    /\ now < Five => ~In(users["cashier"], 1)

\* C5 witness: both asked at time 0, moviegoer 0 released at time 5 and
\* moviegoer 1 has been granted the cashier
SecondWasGranted ==
    /\ capacity["cashier"] = 1
    /\ \E i, j \in 1..Len(rlog) :
          /\ rlog[i].pool = "cashier" /\ rlog[i].m = 0 /\ rlog[i].t = 0
          /\ rlog[j].pool = "cashier" /\ rlog[j].m = 1 /\ rlog[j].t = 0
    /\ \E i \in 1..Len(xlog) :
          xlog[i].pool = "cashier" /\ xlog[i].m = 0 /\ xlog[i].t = Five
    /\ Count(glog, 1, "cashier") = 1

Holds(m, p) == In(users[p], m)

Visits(m) == {"cashier", "usher"} \cup {p \in {"server"} : Count(rlog, m, p) > 0}

\* C6: a moviegoer releases a pool at most once and only a pool it was
\* granted; it holds a pool exactly from its grant to its release; and when
\* it has terminated it holds no pool, waits for none, and has released every
\* pool it was granted (the cashier, the usher, and the server if it chose food)
\* exactly once.
EveryHandleReleasedOnce ==
    \A m \in DOMAIN pc : \A p \in Pools :
        LET granted == Count(glog, m, p)
            released == Count(xlog, m, p)
        IN /\ released <= granted
           /\ granted <= 1
           /\ Holds(m, p) <=> (granted = 1 /\ released = 0)
           /\ pc[m] = "terminated" =>
                 /\ ~Holds(m, p) /\ ~In(put_queue[p], m)
                 /\ released = granted
                 /\ p \in Visits(m) => released = 1

\* C6 witness: a moviegoer that chose food has terminated, after three releases
TerminatedAfterFood ==
    \E m \in DOMAIN pc :
        /\ pc[m] = "terminated"
        /\ \A p \in Pools : Count(xlog, m, p) = 1 /\ Count(glog, m, p) = 1

Terminated == {m \in DOMAIN pc : pc[m] = "terminated"}

\* the latest time at which the first moviegoer to end can end
WorstFirstEnd == MaxOf(PurchaseTimes) + CheckTicketTime + MaxOf(FoodTimes)

\* C7: in every state the number of samples in wait_times is the number of
\* moviegoers that have terminated (one that is still waiting or in service
\* when the run stops has no sample), and a run stopped by a time limit later
\* than the longest cashier, usher and server service together has a sample.
SamplesMatchTerminated ==
    /\ Len(wait_times) = Cardinality(Terminated)
    /\ (status = "stopped" /\ Until > WorstFirstEnd) => Len(wait_times) > 0

\* C7 witness: the run was stopped with samples collected and with moviegoers
\* still in the queues and in service
StoppedWithSamples ==
    /\ status = "stopped"
    /\ Len(wait_times) > 1
    /\ \E m \in DOMAIN pc : pc[m] = "request"
    /\ \E m \in DOMAIN pc : pc[m] = "station"

\* C8: when a station asks for a timeout with a negative delay, the request is
\* refused: the event queue is as it was before the call, no timeout is
\* pending for that process, no queue entry lies before the clock, the clock
\* is the time of the event being processed, and the process is not suspended
\* on a timeout (it has failed, and its failure is on its way to its caller).
NegativeDelayRefused ==
    fault.m # -1 =>
        /\ fault.kept
        /\ \A e \in queue : e.time >= now
        /\ \A e \in queue : ~(e.kind = "timeout_sub" /\ e.m = fault.m)
        /\ fault.t <= now
        /\ last[2].kind = "init_sub" /\ last[2].time = fault.t => now = fault.t
        /\ \/ pc[fault.m] = "failed"
           \/ \E e \in queue : e.kind = "proc_sub" /\ e.m = fault.m /\ ~e.ok

\* C8 witness: a negative delay was asked for after the clock had advanced
NegativeDelayAsked == fault.m # -1 /\ fault.delay < 0 /\ fault.t > 0 /\ status = "running"

\* C9: the run is a function of the configuration and of the draws: in every
\* state exactly one queue entry can be processed next, because no two
\* entries share an event id and the heap order (time, priority, id) is total.
NextEventIsDetermined ==
    /\ Cardinality(Earliest(queue)) <= 1
    /\ \A e, f \in queue : e.eid = f.eid => e = f
    /\ \A e \in queue : e.eid < eid

\* C9 witness: several entries of the same time and priority are in the queue,
\* so that only the event id decides which is next
TieDecidedByEventId ==
    \E e, f \in queue :
        /\ e # f /\ e.time = f.time /\ e.prio = f.prio
        /\ e \in Earliest(queue)
        /\ now > 0

\* C10 as stated: a request that finds held_count < capacity is granted to
\* its caller in the same step, without entering the wait queue and without
\* suspending the process that makes it.
FreeRequestDoesNotSuspend ==
    \A i \in 1..Len(rlog) :
        rlog[i].free =>
            /\ rlog[i].granted
            /\ ~(pc[rlog[i].m] = "request" /\ at[rlog[i].m] = rlog[i].pool)

\* C10: a request that finds held_count < capacity and nobody waiting is
\* granted in the same step (the process is in users, not in put_queue, and
\* the grant carries the time of the request); the process is still suspended
\* at its yield until the grant's event is processed, which happens at the
\* same clock value. A request that finds a free unit and somebody waiting is
\* not granted in that step.
FreeRequestGrantedAtOnce ==
    \A i \in 1..Len(rlog) :
        LET m == rlog[i].m
            p == rlog[i].pool
        IN /\ (rlog[i].free /\ rlog[i].ahead = 0) =>
                /\ rlog[i].granted
                /\ ~In(put_queue[p], m)
                /\ \E j \in 1..Len(glog) :
                      glog[j].m = m /\ glog[j].pool = p /\ glog[j].t = rlog[i].t
                /\ (pc[m] = "request" /\ at[m] = p) =>
                      /\ now = rlog[i].t
                      /\ Holds(m, p)
                      /\ \E e \in queue : e.kind = "request" /\ e.m = m /\ e.pool = p
                                          /\ e.time = now
           /\ (rlog[i].free /\ rlog[i].ahead > 0) => ~rlog[i].granted

\* C10 witness: a process granted at once is still suspended at its yield
\* while a process that asked later has already been resumed
SuspendedThoughGranted ==
    \E i, j \in 1..Len(rlog) :
        /\ i < j
        /\ rlog[i].free /\ rlog[i].ahead = 0 /\ rlog[i].granted
        /\ pc[rlog[i].m] = "request" /\ at[rlog[i].m] = rlog[i].pool
        /\ rlog[j].m # rlog[i].m

Fresh(old, new, p) == SelectSeq(SubSeq(new, Len(old) + 1, Len(new)), LAMBDA r : r.pool = p)

RunStopsAtUntil ==
    /\ [](now <= Until /\ last[2].time <= Until)
    /\ [](status = "stopped" =>
            /\ now = Until
            /\ last[2].kind = "until"
            /\ \A e \in queue : e.time >= Until)
    /\ [][status = "running" /\ now' <= Until
            /\ \A e \in queue \ queue' : e.time <= Until]_vars

\* C13 witness: the run has stopped and left behind events due after the limit
\* and a process that is still suspended
StoppedBeforeLaterEvents ==
    /\ status = "stopped"
    /\ \E e \in queue : e.time > Until
    /\ \E m \in DOMAIN pc : pc[m] # "terminated"


\* the events that will resume moviegoer m (a release's event and the event of
\* its own end resume nobody)
Wakeups(m) == {e \in queue : e.m = m /\ e.kind \notin {"release", "proc_end"}}

\* the entries a step appends to a log
Added(old, new) == {new[i] : i \in (Len(old) + 1)..Len(new)}

\* C14: scheduling is cooperative. Every step processes exactly one event and
\* runs at most one process, the one that event resumes, up to its next
\* suspension point or its end: only that process changes its position, asks
\* for or releases pool units and draws random values, and the clock moves to
\* that event's time only. A suspended moviegoer waits for exactly one thing
\* (one event, or one place in a wait queue), so it cannot be resumed twice,
\* and a terminated one waits for nothing.
OneProcessPerStep ==
    /\ [](\A m \in DOMAIN pc :
            LET waits == IF pc[m] = "request" /\ In(put_queue[at[m]], m) THEN 1 ELSE 0
            IN Cardinality(Wakeups(m)) + waits = IF pc[m] = "terminated" THEN 0 ELSE 1)
    /\ [][\E e \in queue :
            /\ queue \ queue' = {e}
            /\ now' = e.time
            /\ \A m \in DOMAIN pc :
                  (pc'[m] # pc[m] \/ at'[m] # at[m] \/ arrival_time'[m] # arrival_time[m])
                      => m = e.m
            /\ \A r \in Added(rlog, rlog') \cup Added(xlog, xlog') \cup Added(draws, draws') :
                  r.m = e.m
            /\ Len(wait_times') <= Len(wait_times) + 1]_vars

\* C14 witness: several moviegoers are due at the current clock value, one of
\* them has just run up to its next request and the others have not moved
OneRanOthersDue ==
    \E m, k \in DOMAIN pc :
        /\ m # k
        /\ rlog # <<>> /\ rlog[Len(rlog)].m = m /\ rlog[Len(rlog)].t = now
        /\ rlog[Len(rlog)].pool = "usher"
        /\ pc[k] = "station"
        /\ \E e \in Wakeups(k) : e.time = now /\ e.kind = "proc_sub"


\* the station processes that were run for moviegoer m at pool p
Runs(m, p) == {i \in 1..Len(draws) : draws[i].m = m /\ draws[i].what = p}

\* C15: the end of a process is final. A terminated moviegoer stays
\* terminated, waits for no event and for no pool, holds nothing, and asks
\* for, is granted and releases nothing afterwards; a step adds at most one
\* sample, and only for a moviegoer that terminates in that step. A station's
\* process runs once for a moviegoer and a pool, and once its timeout is over
\* no event resumes it again.
TerminatedIsAbsorbing ==
    /\ [](\A m \in Terminated :
            /\ Wakeups(m) = {}
            /\ \A p \in Pools : ~Holds(m, p) /\ ~In(put_queue[p], m))
    /\ [](\A m \in DOMAIN pc : \A p \in Pools :
            /\ Cardinality(Runs(m, p)) <= 1
            /\ Cardinality({e \in Wakeups(m) : e.pool = p}) <= 1
            /\ \A i \in Runs(m, p) : \A e \in Wakeups(m) :
                  e.pool = p => \/ e.kind = "timeout_sub" /\ e.time = draws[i].t + draws[i].value
                                \/ e.kind = "proc_sub" /\ e.time = draws[i].t + draws[i].value)
    /\ [][/\ \A m \in Terminated :
                /\ pc'[m] = "terminated"
                /\ at'[m] = at[m]
                /\ arrival_time'[m] = arrival_time[m]
                /\ \A r \in Added(rlog, rlog') \cup Added(glog, glog')
                            \cup Added(xlog, xlog') \cup Added(draws, draws') : r.m # m
          /\ Len(wait_times') - Len(wait_times)
                = Cardinality({m \in DOMAIN pc : pc[m] # "terminated" /\ pc'[m] = "terminated"})
          /\ Len(wait_times') <= Len(wait_times) + 1
          /\ SubSeq(wait_times', 1, Len(wait_times)) = wait_times]_vars

\* C15 witness: a moviegoer terminated at an earlier clock value, the event of
\* its end has been processed, and other moviegoers have terminated since
TerminatedAndLeftBehind ==
    \E m \in Terminated :
        /\ \A e \in queue : e.m # m
        /\ \E i \in 1..Len(xlog) : xlog[i].m = m /\ xlog[i].pool = "server" /\ xlog[i].t < now
        /\ Len(wait_times) >= 2


SpawnTime(m) ==
    IF m < InitialMoviegoers THEN 0 ELSE (m - InitialMoviegoers + 1) * Interval

Food(m) == {draws[i].value : i \in {j \in 1..Len(draws) : draws[j].m = m /\ draws[j].what = "food"}}

\* moviegoer m has a request on pool p, waiting or granted
Handle(m, p) == Holds(m, p) \/ In(put_queue[p], m)

\* C18: a moviegoer has at most one request at a time, waiting or granted,
\* and it is the one of the station it is at. It asks for each pool at most
\* once, in the order cashier, usher, server: for the usher in the step that
\* releases the cashier, for the server in the step that releases the usher
\* and only if it drew food; one that drew no_food never asks for a server
\* and terminates.
OnePoolAtATime ==
    \A m \in DOMAIN pc :
        LET rc == Count(rlog, m, "cashier")
            ru == Count(rlog, m, "usher")
            rs == Count(rlog, m, "server")
            xc == Count(xlog, m, "cashier")
            xu == Count(xlog, m, "usher")
        IN /\ Cardinality({p \in Pools : Handle(m, p)}) <= 1
           /\ \A p \in Pools : Handle(m, p) => at[m] = p
           /\ rc = (IF pc[m] = "pending" THEN 0 ELSE 1)
           /\ ru = xc /\ ru <= rc
           /\ rs <= xu /\ xu <= ru
           /\ Food(m) = (IF xu = 0 THEN {} ELSE {rs})
           /\ (0 \in Food(m)) => pc[m] = "terminated"
           /\ \A p \in Pools : In(put_queue[p], m) => \A q \in Pools : ~Holds(m, q)

\* C18 witness: a moviegoer that drew food waits for a server holding nothing,
\* while one that drew no_food has terminated without asking for a server
WaitsForServerEmptyHanded ==
    \E m, k \in DOMAIN pc :
        /\ In(put_queue["server"], m) /\ Food(m) = {1}
        /\ \A q \in Pools : ~Holds(m, q)
        /\ Food(k) = {0} /\ pc[k] = "terminated" /\ Count(rlog, k, "server") = 0


\* C19: a unit granted at clock t is held for exactly the station's timeout:
\* the station's process starts and asks for its timeout d at t, the unit is
\* released at t + d, and from the grant up to that release the pool counts
\* the moviegoer among its holders, the clock being at most t + d.
HeldForServiceTime ==
    \A i \in 1..Len(glog) :
        LET g == glog[i]
            ds == Runs(g.m, g.pool)
            xs == {k \in 1..Len(xlog) : xlog[k].m = g.m /\ xlog[k].pool = g.pool}
        IN /\ g.t <= now
           /\ ds = {} => now = g.t /\ xs = {}
           /\ \A j \in ds : draws[j].t = g.t
           /\ \A k \in xs : \E j \in ds : xlog[k].t = g.t + draws[j].value
           /\ IF xs = {}
              THEN /\ Holds(g.m, g.pool)
                   /\ \A j \in ds : now <= g.t + draws[j].value
              ELSE ~Holds(g.m, g.pool)

\* C19 witness: a unit that was granted after a wait, at a clock value other
\* than 0, has been released one longest purchase later
ReleasedAfterLongPurchase ==
    \E i \in 1..Len(glog) : \E k \in 1..Len(xlog) :
        /\ glog[i].pool = "cashier" /\ glog[i].t > 0
        /\ xlog[k].m = glog[i].m /\ xlog[k].pool = "cashier"
        /\ xlog[k].t = glog[i].t + MaxOf(PurchaseTimes)


\* the timeout of the station process run for moviegoer m at pool p, 0 if none
Service(m, p) ==
    IF Runs(m, p) = {} THEN 0 ELSE draws[CHOOSE j \in Runs(m, p) : TRUE].value

\* the time moviegoer m's request on pool p spent before its grant, 0 if none
Waited(m, p) ==
    LET rs == {i \in 1..Len(rlog) : rlog[i].m = m /\ rlog[i].pool = p}
        gs == {j \in 1..Len(glog) : glog[j].m = m /\ glog[j].pool = p}
    IN IF rs = {} \/ gs = {} THEN 0
       ELSE glog[CHOOSE j \in gs : TRUE].t - rlog[CHOOSE i \in rs : TRUE].t

ServiceSum(m) == Service(m, "cashier") + Service(m, "usher") + Service(m, "server")

WaitedSum(m) == Waited(m, "cashier") + Waited(m, "usher") + Waited(m, "server")

====
